---- MODULE Spec2Model ----
(***************************************************************************)
(* Model of cs_course_enrollment.py: a browser session is opened, the RU   *)
(* Course Finder is driven to list the CST courses of a term, the result   *)
(* containers are scraped into CourseInfo records, and the records are     *)
(* tabulated on standard output and optionally written as CSV.             *)
(*                                                                         *)
(* A text (Python str) is a sequence of one-character strings.             *)
(***************************************************************************)
EXTENDS Integers, Sequences, FiniteSets, TLC

\* ------------------------------------------------------------------ bounds

\* Longest enrolled / wait-list text enumerated character by character.
MaxLen == 5
\* Most result containers on the rendered page.
MaxBoxes == 2
\* Most records handed to print_courses / save_csv when called directly.
MaxRecs == 2
\* Longest field (in characters) of the width inputs.
MaxFieldLen == 10
\* Longest CSV field enumerated character by character.
MaxCsvLen == 2

\* ------------------------------------------------------- program constants

\* WebDriverWait(driver, 20)
WaitTimeout == 20
\* enrolled_current <= 10
LowEnrollment == 10

\* None where an exception name is expected.
None == "None"
\* None where a text is expected (no csv_path, no file yet).
NoText == <<"None">>
\* A sub-field whose find_element raises NoSuchElementException.
Missing == <<"NoSuchElementException">>

\* ------------------------------------------------------------------- texts

Digits == {"0", "1", "2", "3", "4", "5", "6", "7", "8", "9"}

DigitVal(c) ==
    CASE c = "0" -> 0 [] c = "1" -> 1 [] c = "2" -> 2 [] c = "3" -> 3
      [] c = "4" -> 4 [] c = "5" -> 5 [] c = "6" -> 6 [] c = "7" -> 7
      [] c = "8" -> 8 [] c = "9" -> 9

\* The characters str.strip() and int() treat as white space (those of
\* them that the texts of the model are made of).
Whitespace == {" ", "\t", "\n", "\r"}

RECURSIVE lstrip(_)
lstrip(s) ==
    IF s # <<>> /\ Head(s) \in Whitespace THEN lstrip(Tail(s)) ELSE s

RECURSIVE rstrip(_)
rstrip(s) ==
    IF s # <<>> /\ s[Len(s)] \in Whitespace
    THEN rstrip(SubSeq(s, 1, Len(s) - 1))
    ELSE s

\* str.strip()
strip(s) == rstrip(lstrip(s))

\* str.split(sep) for a one-character separator: always at least one part.
RECURSIVE split(_, _)
split(s, sep) ==
    IF \A i \in 1..Len(s) : s[i] # sep
    THEN <<s>>
    ELSE LET i == CHOOSE k \in 1..Len(s) :
                      s[k] = sep /\ \A j \in 1..(k - 1) : s[j] # sep
         IN  <<SubSeq(s, 1, i - 1)>> \o split(SubSeq(s, i + 1, Len(s)), sep)

\* The digits of an int() literal after its sign: digits, with single
\* underscores allowed between two digits.
RECURSIVE DigitsValue(_, _, _)
DigitsValue(s, acc, prevDigit) ==
    IF s = <<>>
    THEN [ok |-> prevDigit, val |-> acc]
    ELSE IF Head(s) \in Digits
         THEN DigitsValue(Tail(s), 10 * acc + DigitVal(Head(s)), TRUE)
         ELSE IF Head(s) = "_" /\ prevDigit /\ Tail(s) # <<>>
                   /\ Head(Tail(s)) \in Digits
              THEN DigitsValue(Tail(s), acc, FALSE)
              ELSE [ok |-> FALSE, val |-> 0]

\* int(text): ok is FALSE where Python raises ValueError.
py_int(text) ==
    LET s == strip(text)
        neg == s # <<>> /\ Head(s) = "-"
        body == IF s # <<>> /\ Head(s) \in {"-", "+"} THEN Tail(s) ELSE s
        d == DigitsValue(body, 0, FALSE)
    IN  [ok |-> d.ok, val |-> IF neg THEN 0 - d.val ELSE d.val]

\* str(n) for n >= 0
RECURSIVE py_str(_)
py_str(n) ==
    LET last == CHOOSE c \in Digits : DigitVal(c) = n % 10
    IN  IF n < 10 THEN <<last>> ELSE py_str(n \div 10) \o <<last>>

RECURSIVE Spaces(_)
Spaces(n) == IF n <= 0 THEN <<>> ELSE <<" ">> \o Spaces(n - 1)

\* f"{s:<{width}}": left-justify, pad with spaces, never truncate.
ljust(s, width) == s \o Spaces(width - Len(s))

RECURSIVE Concat(_)
Concat(ss) == IF ss = <<>> THEN <<>> ELSE Head(ss) \o Concat(Tail(ss))

Max(a, b) == IF a >= b THEN a ELSE b

\* max(len(label), max(len(f(c)) for c in courses)), courses non-empty
RECURSIVE MaxLenOf(_, _)
MaxLenOf(lens, acc) ==
    IF lens = <<>> THEN acc ELSE MaxLenOf(Tail(lens), Max(acc, Head(lens)))

\* ---------------------------------------------------------------- Reporter

CourseInfo(t, c, e, w) ==
    [title |-> t, class_code |-> c, enrolled |-> e, wait_list |-> w]

TitleLabel == <<"T", "i", "t", "l", "e">>
ClassLabel == <<"C", "l", "a", "s", "s">>
EnrolledLabel == <<"E", "n", "r", "o", "l", "l", "e", "d">>
WaitLabel == <<"W", "a", "i", "t", " ", "L", "i", "s", "t">>

NoCoursesNotice ==
    <<"N", "o", " ", "c", "o", "u", "r", "s", "e", "s", " ", "w", "e", "r",
      "e", " ", "f", "o", "u", "n", "d", ".", " ", " ", "V", "e", "r", "i",
      "f", "y", " ", "t", "h", "e", " ", "t", "e", "r", "m", " ", "c", "o",
      "d", "e", " ", "a", "n", "d", " ", "t", "r", "y", " ", "a", "g", "a",
      "i", "n", ".">>

\* ("<=" stands for the single character U+2264)
FlaggedTitle ==
    <<"\n", "C", "o", "u", "r", "s", "e", "s", " ", "o", "f", " ", "i", "n",
      "t", "e", "r", "e", "s", "t", " ", "(", "<=", " ", "1", "0", " ", "e",
      "n", "r", "o", "l", "l", "e", "d", " ", "o", "r", " ", "s", "t", "u",
      "d", "e", "n", "t", "s", " ", "o", "n", " ", "t", "h", "e", " ", "w",
      "a", "i", "t", " ", "l", "i", "s", "t", ")", ":">>

\* The four column widths of print_courses, over ALL the courses.
column_widths(courses) ==
    LET n == Len(courses)
    IN  [title |->
            Max(Len(TitleLabel),
                MaxLenOf([i \in 1..n |-> Len(courses[i].title)], 0)),
         class_code |->
            Max(Len(ClassLabel),
                MaxLenOf([i \in 1..n |-> Len(courses[i].class_code)], 0)),
         enrolled |->
            Max(Len(EnrolledLabel),
                MaxLenOf([i \in 1..n |-> Len(courses[i].enrolled)], 0)),
         wait_list |->
            Max(Len(WaitLabel),
                MaxLenOf([i \in 1..n |-> Len(courses[i].wait_list)], 0))]

ColumnGap == <<" ", " ">>

\* One formatted line: four left-justified cells joined by two spaces.
format_row(t, c, e, w, width) ==
    ljust(t, width.title) \o ColumnGap
      \o ljust(c, width.class_code) \o ColumnGap
      \o ljust(e, width.enrolled) \o ColumnGap
      \o ljust(w, width.wait_list)

header_row(width) ==
    format_row(TitleLabel, ClassLabel, EnrolledLabel, WaitLabel, width)

course_row(course, width) ==
    format_row(course.title, course.class_code, course.enrolled,
               course.wait_list, width)

RECURSIVE Dashes(_)
Dashes(n) == IF n <= 0 THEN <<>> ELSE <<"-">> \o Dashes(n - 1)

\* print_courses._parse_pair
parse_pair(pair) ==
    LET parts == split(pair, "/")
    IN  IF Len(parts) # 2
        THEN <<0, 0>>
        ELSE LET current == py_int(strip(parts[1]))
                 limit == py_int(strip(parts[2]))
             IN  IF current.ok /\ limit.ok
                 THEN <<current.val, limit.val>>
                 ELSE <<0, 0>>

\* The flagging test with the low-enrollment bound excluded.
is_flagged_strict(c) ==
    LET enrolled_current == parse_pair(c.enrolled)[1]
        wait_current == parse_pair(c.wait_list)[1]
    IN  enrolled_current < LowEnrollment \/ wait_current > 0

\* The test of the flagging loop.
is_flagged(c) ==
    LET enrolled_current == parse_pair(c.enrolled)[1]
        wait_current == parse_pair(c.wait_list)[1]
    IN  enrolled_current <= LowEnrollment \/ wait_current > 0

\* The flagging loop: flagged.append(c) for each c that passes, in order.
RECURSIVE flag_loop(_, _)
flag_loop(cs, acc) ==
    IF cs = <<>>
    THEN acc
    ELSE flag_loop(Tail(cs),
                   IF is_flagged(Head(cs)) THEN Append(acc, Head(cs)) ELSE acc)

\* The flagged sub-table laid out by its own records only.
flagged_widths_own(courses, flaggedCourses) == column_widths(flaggedCourses)

\* The widths the flagged sub-table is laid out with.
flagged_widths(courses, flaggedCourses) == column_widths(courses)

\* The lines print_courses writes for a non-empty list: the table, then
\* the flagged section if a course is flagged.
print_table(courses) ==
    LET width == column_widths(courses)
        header == header_row(width)
        flaggedCourses == flag_loop(courses, <<>>)
        fwidth == flagged_widths(courses, flaggedCourses)
        flagged_header == header_row(fwidth)
    IN  <<header, Dashes(Len(header))>>
          \o [i \in 1..Len(courses) |-> course_row(courses[i], width)]
          \o (IF flaggedCourses # <<>>
              THEN <<FlaggedTitle, flagged_header, Dashes(Len(flagged_header))>>
                     \o [i \in 1..Len(flaggedCourses) |->
                            course_row(flaggedCourses[i], fwidth)]
              ELSE <<>>)

\* print_courses with the emptiness test off by one.
print_courses_off_by_one(courses) ==
    IF Len(courses) <= 1 THEN <<NoCoursesNotice>> ELSE print_table(courses)

\* The lines print_courses writes, one per print() call.
print_courses(courses) ==
    IF courses = <<>> THEN <<NoCoursesNotice>> ELSE print_table(courses)

\* ------------------------------------------------------------------- CSV

CsvSpecial == {",", "\"", "\r", "\n"}

RECURSIVE csv_escape(_)
csv_escape(s) ==
    IF s = <<>> THEN <<>>
    ELSE (IF Head(s) = "\"" THEN <<"\"", "\"">> ELSE <<Head(s)>>)
           \o csv_escape(Tail(s))

\* csv.writer, excel dialect, QUOTE_MINIMAL: one field.
csv_field(s) ==
    IF \E i \in 1..Len(s) : s[i] \in CsvSpecial
    THEN <<"\"">> \o csv_escape(s) \o <<"\"">>
    ELSE s

\* writer.writerow(fields): fields joined by commas, ended by \r\n.
csv_writerow(fields) ==
    Concat([i \in 1..Len(fields) |->
               IF i = 1 THEN csv_field(fields[i])
               ELSE <<",">> \o csv_field(fields[i])])
      \o <<"\r", "\n">>

CsvHeader == <<TitleLabel, ClassLabel, EnrolledLabel, WaitLabel>>

\* The row of a course with its first two columns exchanged.
course_fields_swapped(c) == <<c.class_code, c.title, c.enrolled, c.wait_list>>

\* [c.title, c.class_code, c.enrolled, c.wait_list]
course_fields(c) == <<c.title, c.class_code, c.enrolled, c.wait_list>>

\* The text save_csv leaves in the file.
save_csv_text(courses) ==
    csv_writerow(CsvHeader)
      \o Concat([i \in 1..Len(courses) |->
                    csv_writerow(course_fields(courses[i]))])

SavedPrefix == <<"S", "a", "v", "e", "d", " ">>
SavedMiddle == <<" ", "c", "o", "u", "r", "s", "e", "s", " ", "t", "o", " ">>

\* f"Saved {len(courses)} courses to {path}"
saved_line(courses, path) ==
    SavedPrefix \o py_str(Len(courses)) \o SavedMiddle \o path

\* ------------------------------------------------------------- the program

VARIABLES
    pc,            \* where main, collect_courses or a direct call stands
    args,          \* the parsed command line: term, csv_path, show_browser
    driver,        \* the browser session: "none", "open" or "closed"
    chrome_args,   \* the ChromeOptions arguments the session was created with
    page,          \* the Course Finder page: url, selected subjects, queries sent
    calls,         \* the session operations attempted so far, in order
    course_boxes,  \* the elements find_elements returned
    idx,           \* the position of the extraction loop in course_boxes
    courses,       \* the CourseInfo records collected
    raised,        \* the exception in flight, or None
    out,           \* standard output, one entry per print()
    file,          \* the text of the CSV file, NoText while there is none
    exit_code      \* the statuses the process ended with: <<>>, <<0>> or <<1>>

vars == <<pc, args, driver, chrome_args, page, calls, course_boxes, idx,
          courses, raised, out, file, exit_code>>

Subjects == {"CST", "MATH"}

OutPath == <<"o", "u", "t", ".", "c", "s", "v">>
EmptyPath == <<>>

\* When an awaited element shows up: at once, on the last tick, or too late.
AppearTimes == {0, WaitTimeout, WaitTimeout + 1}

BlankPage == [url |-> <<>>, selected |-> {}, submitted |-> <<>>]

\* What the result containers of the page can hold.
BoxTitles == {Missing, <<"I", "n", "t", "r", "o", " ", "t", "o", " ", "C", "S", " ">>}
BoxClasses == {Missing, <<"C", "S", "T", " ", "1", "5", "0", "-", "0", "1">>}
BoxEnrolled == {Missing, <<" ", "9", " ", "/", " ", "2", "5">>}
BoxWaits == {Missing, <<"0", " ", "/", " ", "0", "\n">>}

BoxSet ==
    {[courseName |-> t, classID |-> c, enrollID |-> e, waitID |-> w] :
        t \in BoxTitles, c \in BoxClasses, e \in BoxEnrolled, w \in BoxWaits}

RECURSIVE SeqsUpTo(_, _)
SeqsUpTo(S, n) ==
    IF n = 0 THEN {<<>>}
    ELSE LET shorter == SeqsUpTo(S, n - 1)
         IN  shorter \cup {Append(q, x) : q \in shorter, x \in S}

Pages == SeqsUpTo(BoxSet, MaxBoxes)

\* The test "args.csv_path is not None".
truthy_not_none(path) == path # NoText

\* bool(args.csv_path)
truthy(path) == path # NoText /\ path # <<>>

\* The loop body with a missing wait list replaced by an empty text.
extract_box_placeholder(box, acc) ==
    IF box.courseName # Missing /\ box.classID # Missing
         /\ box.enrollID # Missing
    THEN Append(acc, CourseInfo(strip(box.courseName), strip(box.classID),
                                strip(box.enrollID),
                                IF box.waitID = Missing THEN <<>>
                                ELSE strip(box.waitID)))
    ELSE acc

\* The body of the try block of the extraction loop, for one container.
extract_box(box, acc) ==
    IF box.courseName # Missing /\ box.classID # Missing
         /\ box.enrollID # Missing /\ box.waitID # Missing
    THEN Append(acc, CourseInfo(strip(box.courseName), strip(box.classID),
                                strip(box.enrollID), strip(box.waitID)))
    ELSE acc

Init ==
    /\ pc = "get_driver"
    /\ args \in [term : {"202610"},
                 csv_path : {NoText, EmptyPath, OutPath},
                 show_browser : BOOLEAN]
    /\ driver = "none"
    /\ chrome_args = {}
    /\ page = BlankPage
    /\ calls = <<>>
    /\ course_boxes = <<>>
    /\ idx = 0
    /\ courses = <<>>
    /\ raised = None
    /\ out = <<>>
    /\ file = NoText
    /\ exit_code = <<>>

\* get_driver(headless = not args.show_browser), called before the try block.
GetDriver ==
    /\ pc = "get_driver"
    /\ \E ok \in BOOLEAN :
         IF ok
         THEN /\ driver' = "open"
              /\ chrome_args' =
                    (IF ~args.show_browser THEN {"--headless=new"} ELSE {})
                      \cup {"--disable-gpu", "--no-sandbox",
                            "--disable-blink-features=AutomationControlled"}
              /\ pc' = "get"
              /\ raised' = None
         ELSE /\ raised' = "WebDriverException"
              /\ pc' = "propagate"
              /\ UNCHANGED <<driver, chrome_args>>
    /\ UNCHANGED <<args, page, calls, course_boxes, idx, courses, out, file,
                   exit_code>>

\* What a statement of the try block that raises does: on to the finally.
Raise(exc) ==
    /\ raised' = exc
    /\ pc' = "finally"

\* driver.get(url)
DriverGet ==
    /\ pc = "get"
    /\ calls' = Append(calls, "get")
    /\ \/ /\ \E pre \in SUBSET Subjects :
               page' = [url |-> <<"TERM=", args.term>>, selected |-> pre,
                        submitted |-> <<>>]
          /\ pc' = "wait_subjects"
          /\ UNCHANGED raised
       \/ /\ Raise("WebDriverException")
          /\ UNCHANGED page
    /\ UNCHANGED <<args, driver, chrome_args, course_boxes, idx, courses, out,
                   file, exit_code>>

\* wait.until(presence_of_element_located((By.ID, "subjects")))
WaitSubjects ==
    /\ pc = "wait_subjects"
    /\ calls' = Append(calls, "wait_subjects")
    /\ \E t \in AppearTimes :
         IF t <= WaitTimeout
         THEN pc' = "deselect_all" /\ UNCHANGED raised
         ELSE Raise("TimeoutException")
    /\ UNCHANGED <<args, driver, chrome_args, page, course_boxes, idx, courses,
                   out, file, exit_code>>

\* deselect_all left out: the pre-selected subjects stay selected.
DeselectAll_skipped ==
    /\ pc = "deselect_all"
    /\ calls' = Append(calls, "deselect_all")
    /\ \/ /\ pc' = "select_by_value"
          /\ UNCHANGED <<raised, page>>
       \/ /\ Raise("NotImplementedError")
          /\ UNCHANGED page
    /\ UNCHANGED <<args, driver, chrome_args, course_boxes, idx, courses, out,
                   file, exit_code>>

\* Select(subjects_select); select.deselect_all()
DeselectAll ==
    /\ pc = "deselect_all"
    /\ calls' = Append(calls, "deselect_all")
    /\ \/ /\ page' = [page EXCEPT !.selected = {}]
          /\ pc' = "select_by_value"
          /\ UNCHANGED raised
       \/ /\ Raise("NotImplementedError")
          /\ UNCHANGED page
    /\ UNCHANGED <<args, driver, chrome_args, course_boxes, idx, courses, out,
                   file, exit_code>>

\* select.select_by_value("CST")
SelectByValue ==
    /\ pc = "select_by_value"
    /\ calls' = Append(calls, "select_by_value")
    /\ \/ /\ page' = [page EXCEPT !.selected = @ \cup {"CST"}]
          /\ pc' = "click"
          /\ UNCHANGED raised
       \/ /\ Raise("NoSuchElementException")
          /\ UNCHANGED page
    /\ UNCHANGED <<args, driver, chrome_args, course_boxes, idx, courses, out,
                   file, exit_code>>

\* driver.find_element(By.XPATH, ...FIND COURSES...); find_button.click()
FindClick ==
    /\ pc = "click"
    /\ calls' = Append(calls, "click")
    /\ \/ /\ page' = [page EXCEPT !.submitted = Append(@, page.selected)]
          /\ pc' = "wait_results"
          /\ UNCHANGED raised
       \/ /\ Raise("NoSuchElementException")
          /\ UNCHANGED page
    /\ UNCHANGED <<args, driver, chrome_args, course_boxes, idx, courses, out,
                   file, exit_code>>

\* wait.until(presence_of_element_located("div.courseResultsBox .courseName"))
WaitResults ==
    /\ pc = "wait_results"
    /\ calls' = Append(calls, "wait_results")
    /\ \E t \in AppearTimes :
         IF t <= WaitTimeout
         THEN pc' = "scroll" /\ UNCHANGED raised
         ELSE Raise("TimeoutException")
    /\ UNCHANGED <<args, driver, chrome_args, page, course_boxes, idx, courses,
                   out, file, exit_code>>

\* driver.execute_script("window.scrollTo(...)"); time.sleep(1)
ScrollAndPause ==
    /\ pc = "scroll"
    /\ \/ /\ calls' = calls \o <<"scroll", "sleep">>
          /\ pc' = "find_elements"
          /\ UNCHANGED raised
       \/ /\ calls' = Append(calls, "scroll")
          /\ Raise("WebDriverException")
    /\ UNCHANGED <<args, driver, chrome_args, page, course_boxes, idx, courses,
                   out, file, exit_code>>

\* course_boxes = driver.find_elements(...); courses = []
FindElements ==
    /\ pc = "find_elements"
    /\ calls' = Append(calls, "find_elements")
    /\ \E boxes \in Pages : course_boxes' = boxes
    /\ courses' = <<>>
    /\ idx' = 1
    /\ pc' = "loop"
    /\ UNCHANGED <<args, driver, chrome_args, page, raised, out, file,
                   exit_code>>

\* One iteration of "for box in course_boxes": try ... except: continue
ExtractBox ==
    /\ pc = "loop"
    /\ idx <= Len(course_boxes)
    /\ courses' = extract_box(course_boxes[idx], courses)
    /\ idx' = idx + 1
    /\ UNCHANGED <<pc, args, driver, chrome_args, page, calls, course_boxes,
                   raised, out, file, exit_code>>

\* return courses (the finally block runs on the way out)
ReturnCourses ==
    /\ pc = "loop"
    /\ idx > Len(course_boxes)
    /\ pc' = "finally"
    /\ UNCHANGED <<args, driver, chrome_args, page, calls, course_boxes, idx,
                   courses, raised, out, file, exit_code>>

\* The exception of the try block swallowed.
after_try_swallow(exc) == "print_courses"

\* Where control goes once the session of collect_courses is released.
after_try(exc) == IF exc = None THEN "print_courses" ELSE "propagate"

\* driver.quit() at the end of the try body instead of in a finally.
Finally_success_only ==
    /\ pc = "finally"
    /\ driver' = IF raised = None THEN "closed" ELSE driver
    /\ pc' = after_try(raised)
    /\ UNCHANGED <<args, chrome_args, page, calls, course_boxes, idx, courses,
                   raised, out, file, exit_code>>

\* finally: driver.quit()
Finally ==
    /\ pc = "finally"
    /\ driver' = "closed"
    /\ pc' = after_try(raised)
    /\ UNCHANGED <<args, chrome_args, page, calls, course_boxes, idx, courses,
                   raised, out, file, exit_code>>

\* main: print_courses(courses)
MainPrintCourses ==
    /\ pc = "print_courses"
    /\ out' = out \o print_courses(courses)
    /\ pc' = "csv"
    /\ UNCHANGED <<args, driver, chrome_args, page, calls, course_boxes, idx,
                   courses, raised, file, exit_code>>

\* main: if args.csv_path: save_csv(courses, args.csv_path)
MainSaveCsv ==
    /\ pc = "csv"
    /\ truthy(args.csv_path)
    /\ \/ /\ file' = save_csv_text(courses)
          /\ out' = Append(out, saved_line(courses, args.csv_path))
          /\ pc' = "return"
          /\ UNCHANGED raised
       \/ /\ raised' = "OSError"
          /\ pc' = "propagate"
          /\ UNCHANGED <<file, out>>
    /\ UNCHANGED <<args, driver, chrome_args, page, calls, course_boxes, idx,
                   courses, exit_code>>

\* main: args.csv_path is None or empty, save_csv is not called
MainSkipCsv ==
    /\ pc = "csv"
    /\ ~truthy(args.csv_path)
    /\ pc' = "return"
    /\ UNCHANGED <<args, driver, chrome_args, page, calls, course_boxes, idx,
                   courses, raised, out, file, exit_code>>

\* main: return 0
MainReturn ==
    /\ pc = "return"
    /\ exit_code' = <<0>>
    /\ pc' = "done"
    /\ UNCHANGED <<args, driver, chrome_args, page, calls, course_boxes, idx,
                   courses, raised, out, file>>

\* An exception leaves main: the interpreter prints the trace, status 1.
Propagate ==
    /\ pc = "propagate"
    /\ exit_code' = <<1>>
    /\ pc' = "done"
    /\ UNCHANGED <<args, driver, chrome_args, page, calls, course_boxes, idx,
                   courses, raised, out, file>>

Next ==
    \/ GetDriver
    \/ DriverGet
    \/ WaitSubjects
    \/ DeselectAll
    \/ SelectByValue
    \/ FindClick
    \/ WaitResults
    \/ ScrollAndPause
    \/ FindElements
    \/ ExtractBox
    \/ ReturnCourses
    \/ Finally
    \/ MainPrintCourses
    \/ MainSaveCsv
    \/ MainSkipCsv
    \/ MainReturn
    \/ Propagate

Spec == Init /\ [][Next]_vars

\* The script is one sequential thread: every statement either completes or
\* raises (both waits are bounded), so no statement that can run is put off for ever.
FairSpec ==
    /\ Spec
    /\ WF_vars(GetDriver) /\ WF_vars(DriverGet) /\ WF_vars(WaitSubjects)
    /\ WF_vars(DeselectAll) /\ WF_vars(SelectByValue) /\ WF_vars(FindClick)
    /\ WF_vars(WaitResults) /\ WF_vars(ScrollAndPause)
    /\ WF_vars(FindElements) /\ WF_vars(ExtractBox)
    /\ WF_vars(ReturnCourses) /\ WF_vars(Finally)
    /\ WF_vars(Propagate)

\* ------------------------------------------- print_courses called directly

\* Every text of at most n characters of the alphabet.
TextsUpTo(alphabet, n) == UNION {[1..k -> alphabet] : k \in 0..n}

RECURSIVE Fill(_)
Fill(n) == IF n <= 0 THEN <<>> ELSE <<"a">> \o Fill(n - 1)

IntroTitle == <<"I", "n", "t", "r", "o", " ", "t", "o", " ", "C", "S">>
DataTitle ==
    <<"D", "a", "t", "a", " ", "S", "t", "r", "u", "c", "t", "u", "r", "e",
      "s">>
IntroClass == <<"C", "S", "T", " ", "1", "5", "0", "-", "0", "1">>
DataClass == <<"C", "S", "T", " ", "2", "5", "0", "-", "0", "1">>
T_9_25 == <<"9", " ", "/", " ", "2", "5">>
T_25_25 == <<"2", "5", " ", "/", " ", "2", "5">>
T_11_30 == <<"1", "1", " ", "/", " ", "3", "0">>
T_0_0 == <<"0", " ", "/", " ", "0">>
T_3_5 == <<"3", " ", "/", " ", "5">>
T_bad == <<"b", "a", "d">>
T_0_46 == <<"0", "/", "4", "6">>
T_11_1 == <<"1", "1", "/", "1">>

\* The characters of the enrolled / wait-list texts enumerated exhaustively.
ParseAlphabet == {"0", "1", " ", "/", "x", "-"}

ParseSamples ==
    {T_9_25, T_25_25, T_11_30, T_0_0, T_3_5, T_bad, T_0_46,
     <<"+", "5", " ", "/", " ", "9">>,
     <<"1", "_", "0", "/", "2", "_", "0">>,
     <<"1", "2", "/", "x">>,
     <<"1", "1", "/", "1", "/", "1">>,
     <<"\t", "1", "1", "\n", "/", " ", "7", " ">>}

ParseTexts == TextsUpTo(ParseAlphabet, MaxLen) \cup ParseSamples

WaitSamples == {T_0_0, T_3_5, T_bad}
EnrolledSamples == {T_25_25, T_9_25, T_bad}

SampleRecords ==
    {CourseInfo(IntroTitle, IntroClass, T_9_25, T_0_0),
     CourseInfo(DataTitle, DataClass, T_25_25, T_3_5),
     CourseInfo(DataTitle, DataClass, T_11_30, T_0_0),
     CourseInfo(IntroTitle, DataClass, T_bad, T_0_0),
     CourseInfo(<<>>, <<>>, T_25_25, T_bad)}

\* Records whose fields are shorter and longer than the column labels.
WidthRecords ==
    {CourseInfo(t, c, e, w) :
        t \in {Fill(3), Fill(MaxFieldLen)},
        c \in {<<>>, Fill(MaxFieldLen - 1)},
        e \in {T_11_1, Fill(MaxFieldLen + 1)},
        w \in {T_0_0, Fill(MaxFieldLen)}}

ReportInputs ==
    SeqsUpTo(SampleRecords, MaxRecs) \cup SeqsUpTo(WidthRecords, MaxRecs)

InitCall(at, input, path) ==
    /\ pc = at
    /\ args = [term |-> "202610", csv_path |-> path, show_browser |-> FALSE]
    /\ driver = "none"
    /\ chrome_args = {}
    /\ page = BlankPage
    /\ calls = <<>>
    /\ course_boxes = <<>>
    /\ idx = 0
    /\ courses = input
    /\ raised = None
    /\ out = <<>>
    /\ file = NoText
    /\ exit_code = <<>>

\* print_courses is about to be called: with one record, one of its two
\* counts enumerated and the other a sample, or with a list of samples.
InitReport ==
    \/ \E e \in ParseTexts, w \in WaitSamples :
          InitCall("call_print_courses",
                   <<CourseInfo(IntroTitle, IntroClass, e, w)>>, NoText)
    \/ \E e \in EnrolledSamples, w \in ParseTexts :
          InitCall("call_print_courses",
                   <<CourseInfo(IntroTitle, IntroClass, e, w)>>, NoText)
    \/ \E input \in ReportInputs :
          InitCall("call_print_courses", input, NoText)

\* print_courses(courses)
CallPrintCourses ==
    /\ pc = "call_print_courses"
    /\ out' = out \o print_courses(courses)
    /\ pc' = "called"
    /\ UNCHANGED <<args, driver, chrome_args, page, calls, course_boxes, idx,
                   courses, raised, file, exit_code>>

NextReport == CallPrintCourses

SpecReport == InitReport /\ [][NextReport]_vars

\* ------------------------------------------------ save_csv called directly

CsvAlphabet == {"a", ",", "\"", "\n"}

CsvTexts == TextsUpTo(CsvAlphabet, MaxCsvLen)

\* save_csv is about to be called: with one record, its title and wait
\* list enumerated, or with a list of samples.
InitCsv ==
    \/ \E t \in CsvTexts, w \in CsvTexts :
          InitCall("call_save_csv",
                   <<CourseInfo(t, IntroClass, T_9_25, w)>>, OutPath)
    \/ \E input \in SeqsUpTo(SampleRecords, MaxRecs) :
          InitCall("call_save_csv", input, OutPath)

\* save_csv(courses, path), the file opened for writing
CallSaveCsv ==
    /\ pc = "call_save_csv"
    /\ file' = save_csv_text(courses)
    /\ out' = Append(out, saved_line(courses, args.csv_path))
    /\ pc' = "called"
    /\ UNCHANGED <<args, driver, chrome_args, page, calls, course_boxes, idx,
                   courses, raised, exit_code>>

NextCsv == CallSaveCsv

SpecCsv == InitCsv /\ [][NextCsv]_vars

\* ------------------------------------------------------------------ claims

IsPrefix(p, q) == Len(p) <= Len(q) /\ SubSeq(q, 1, Len(p)) = p

Last(q) == q[Len(q)]

\* C1: once get_driver has created the session, every run goes on to
\* release it: an open session is always eventually closed, and no run that
\* has ended, normally or by an exception, still holds an open session.
C1_SessionReleased ==
    /\ [](pc = "done" => driver # "open")
    /\ (driver = "open") ~> (driver = "closed")

\* A run whose wait timed out has ended with the session closed.
C1_Witness ==
    pc = "done" /\ raised = "TimeoutException" /\ driver = "closed"

CompleteBox(b) ==
    /\ b.courseName # Missing
    /\ b.classID # Missing
    /\ b.enrollID # Missing
    /\ b.waitID # Missing

Trimmed(t) ==
    t = <<>> \/ (Head(t) \notin Whitespace /\ Last(t) \notin Whitespace)

\* t is s without its leading and trailing white space.
IsTrimOf(t, s) ==
    /\ Trimmed(t)
    /\ \E i \in 0..Len(s) :
         /\ SubSeq(s, i + 1, i + Len(t)) = t
         /\ i + Len(t) <= Len(s)
         /\ \A k \in (1..i) \cup ((i + Len(t) + 1)..Len(s)) :
              s[k] \in Whitespace

\* rec is the record of the four trimmed texts of the container b.
RecordOf(rec, b) ==
    /\ IsTrimOf(rec.title, b.courseName)
    /\ IsTrimOf(rec.class_code, b.classID)
    /\ IsTrimOf(rec.enrolled, b.enrollID)
    /\ IsTrimOf(rec.wait_list, b.waitID)

NoRepeat(q) == \A i, j \in 1..Len(q) : q[i] = q[j] => i = j

SessionFailed == raised = "WebDriverException" /\ driver = "none"

WaitTimedOut == raised = "TimeoutException"

\* C5: when the session cannot be created, or either bounded wait times
\* out, the error propagates: the failed step is the last session operation
\* (none is repeated or follows it), no records are collected, nothing is
\* written to standard output or to a CSV file, and main does not return 0
\* (the run ends with the trace and status 1).
C5_FatalAbort ==
    (SessionFailed \/ WaitTimedOut) =>
        /\ pc \in {"finally", "propagate", "done"}
        /\ SessionFailed => calls = <<>>
        /\ WaitTimedOut => Last(calls) \in {"wait_subjects", "wait_results"}
        /\ NoRepeat(calls)
        /\ courses = <<>>
        /\ out = <<>>
        /\ file = NoText
        /\ exit_code # <<0>>
        /\ pc = "done" => exit_code = <<1>>

\* The run ended after the wait for the result containers timed out.
C5_Witness ==
    /\ pc = "done"
    /\ WaitTimedOut
    /\ Last(calls) = "wait_results"

NavOrder ==
    <<"get", "wait_subjects", "deselect_all", "select_by_value", "click",
      "wait_results", "scroll", "sleep", "find_elements">>

\* C10: the session operations of a run are always a prefix of the fixed
\* order load, wait for the filter, deselect all, select CST, click, wait
\* for a result, scroll, pause, read the containers; no operation follows
\* one that raised; the click happens only with exactly {CST} selected (so
\* the only query ever sent is for CST); and the extraction loop runs only
\* after the whole order was performed without an exception.
C10_NavigatorOrder ==
    /\ [](IsPrefix(calls, NavOrder))
    /\ [][raised # None => calls' = calls]_vars
    /\ [][(calls' # calls /\ Last(calls') = "click") =>
            page.selected = {"CST"}]_vars
    /\ [](page.submitted \in {<<>>, <<{"CST"}>>})
    /\ [](pc = "loop" => calls = NavOrder /\ raised = None)

\* Extraction has begun on a page whose only query was for CST.
C10_Witness ==
    /\ pc = "loop"
    /\ idx = 2
    /\ page.submitted = <<{"CST"}>>

\* C9 as stated: a run that returned 0 has written the CSV file if and
\* only if a --csv path was supplied.
C9_Original ==
    (pc = "done" /\ exit_code = <<0>>) =>
        ((file # NoText) <=> (args.csv_path # NoText))

\* C9 as amended: save_csv is called if and only if a non-empty --csv path
\* was supplied (an empty path counts as none); the file is written only
\* after print_courses has printed and the session is closed; and main
\* returns 0 whenever no exception left the pipeline, also when no course
\* was found.
C9_CsvAfterTable ==
    /\ []((pc = "done" /\ exit_code = <<0>>) =>
            ((file # NoText) <=> (args.csv_path \notin {NoText, <<>>})))
    /\ []((file # NoText \/ raised = "OSError") =>
            args.csv_path \notin {NoText, <<>>})
    /\ [][file' # file =>
            /\ driver = "closed"
            /\ out # <<>>
            /\ out = print_courses(courses)
            /\ file' = save_csv_text(courses)]_vars
    /\ []((pc = "done" /\ raised = None) => exit_code = <<0>>)
    /\ []((pc = "done" /\ exit_code = <<0>>) => raised = None)

\* A run that found no course and wrote the (header-only) file returned 0.
C9_Witness ==
    /\ pc = "done"
    /\ exit_code = <<0>>
    /\ courses = <<>>
    /\ file # NoText
    /\ driver = "closed"

\* --------------------------------------------- claims about print_courses

\* The parse of the flagging rule, stated without the code's steps: a text
\* with exactly one "/" whose two sides are both integers (white space
\* around them allowed) is that pair; any other text is (0, 0).
ParsesOk(s) ==
    /\ Cardinality({i \in 1..Len(s) : s[i] = "/"}) = 1
    /\ LET i == CHOOSE k \in 1..Len(s) : s[k] = "/"
       IN  /\ py_int(SubSeq(s, 1, i - 1)).ok
           /\ py_int(SubSeq(s, i + 1, Len(s))).ok

ClaimParse(s) ==
    IF ParsesOk(s)
    THEN LET i == CHOOSE k \in 1..Len(s) : s[k] = "/"
         IN  <<py_int(SubSeq(s, 1, i - 1)).val,
               py_int(SubSeq(s, i + 1, Len(s))).val>>
    ELSE <<0, 0>>

ClaimFlagged(c) ==
    ClaimParse(c.enrolled)[1] <= 10 \/ ClaimParse(c.wait_list)[1] > 0

\* The lines print_courses wrote after the main table (header, rule and one
\* row per course): empty, or the flagged section.
FlaggedSection == SubSeq(out, Len(courses) + 3, Len(out))

\* The data rows of the flagged section.
FlaggedRows == SubSeq(out, Len(courses) + 6, Len(out))

Printed == pc = "called" /\ args.csv_path = NoText

C3_NeverFlaggedOnUnparseable ==
    Printed =>
        \A i \in 1..Len(courses) :
            (\E k \in 1..Len(FlaggedRows) :
                 FlaggedRows[k] = course_row(courses[i], column_widths(courses)))
            => \/ /\ ParsesOk(courses[i].enrolled)
                  /\ ClaimParse(courses[i].enrolled)[1] <= 10
               \/ /\ ParsesOk(courses[i].wait_list)
                  /\ ClaimParse(courses[i].wait_list)[1] > 0

\* C6: given no record, print_courses writes the "no courses found" notice
\* and nothing else; given at least one record, it never writes the notice.
C6_EmptyNotice ==
    Printed =>
        /\ courses = <<>> => out = <<NoCoursesNotice>>
        /\ courses # <<>> =>
             /\ \A i \in 1..Len(out) : out[i] # NoCoursesNotice
             /\ Len(out) >= Len(courses) + 2

\* print_courses has returned from a call with no record.
C6_Witness == Printed /\ courses = <<>> /\ Len(out) = 1

\* The larger of the label's length and the longest value's length.
ColMax(label, lens) ==
    CHOOSE m \in lens \cup {Len(label)} :
        \A x \in lens \cup {Len(label)} : m >= x

WT == ColMax(TitleLabel, {Len(courses[i].title) : i \in 1..Len(courses)})
WC == ColMax(ClassLabel, {Len(courses[i].class_code) : i \in 1..Len(courses)})
WE == ColMax(EnrolledLabel, {Len(courses[i].enrolled) : i \in 1..Len(courses)})
WW == ColMax(WaitLabel, {Len(courses[i].wait_list) : i \in 1..Len(courses)})

\* The cell of line that starts at start and is width wide holds text,
\* left-justified, then spaces.
CellIs(line, start, width, text) ==
    /\ SubSeq(line, start, start + Len(text) - 1) = text
    /\ \A k \in (start + Len(text))..(start + width - 1) : line[k] = " "

\* line is t, c, e, w laid out in columns WT, WC, WE, WW wide, two spaces
\* between columns.
LineIs(line, t, c, e, w) ==
    /\ Len(line) = WT + WC + WE + WW + 6
    /\ CellIs(line, 1, WT + 2, t)
    /\ CellIs(line, WT + 3, WC + 2, c)
    /\ CellIs(line, WT + WC + 5, WE + 2, e)
    /\ CellIs(line, WT + WC + WE + 7, WW, w)

RowOf(line, c) == LineIs(line, c.title, c.class_code, c.enrolled, c.wait_list)

\* C8: for a non-empty record sequence every column of the table is
\* max(label length, longest value of that field over ALL records) wide; the
\* flagged sub-table is laid out with these same widths; and each rule is
\* as long as the header row.
C8_ColumnWidths ==
    (Printed /\ courses # <<>>) =>
        LET n == Len(courses)
        IN  /\ LineIs(out[1], TitleLabel, ClassLabel, EnrolledLabel, WaitLabel)
            /\ out[2] = Dashes(Len(out[1]))
            /\ \A i \in 1..n : RowOf(out[2 + i], courses[i])
            /\ FlaggedSection # <<>> =>
                 /\ FlaggedSection[2] = out[1]
                 /\ FlaggedSection[3] = out[2]
                 /\ \A k \in 1..Len(FlaggedRows) :
                      \E i \in 1..n : RowOf(FlaggedRows[k], courses[i])

\* Columns wider than their labels, set by a record that is not flagged,
\* above a flagged section whose own records are all narrower.
C8_Witness ==
    /\ Printed
    /\ Len(courses) = 2
    /\ Len(FlaggedRows) = 1
    /\ WT > Len(TitleLabel)
    /\ WW > Len(WaitLabel)
    /\ column_widths(flag_loop(courses, <<>>)) # column_widths(courses)

\* -------------------------------------------------- claims about save_csv

\* What a csv.reader (excel dialect, file opened with newline="") does with
\* one character; p is its state, the field being read and the row so far.
csv_char(p, c) ==
    LET save == [p EXCEPT !.state = "start_field", !.field = <<>>,
                           !.row = Append(p.row, p.field)]
        add == [p EXCEPT !.state = "in_field", !.field = Append(@, c)]
    IN  CASE p.state = "start_record" /\ c \in {"\r", "\n"} ->
               [p EXCEPT !.state = "eat_crnl"]
          [] p.state \in {"start_record", "start_field"} /\ c = "\"" ->
               [p EXCEPT !.state = "in_quoted"]
          [] p.state = "in_quoted" /\ c = "\"" ->
               [p EXCEPT !.state = "quote_in_quoted"]
          [] p.state = "in_quoted" /\ c # "\"" ->
               [p EXCEPT !.field = Append(@, c)]
          [] p.state = "quote_in_quoted" /\ c = "\"" ->
               [p EXCEPT !.state = "in_quoted", !.field = Append(@, c)]
          [] p.state = "eat_crnl" -> p
          [] OTHER ->
               IF c \in {"\r", "\n"} THEN [save EXCEPT !.state = "eat_crnl"]
               ELSE IF c = "," THEN save
               ELSE add

\* The reader at the end of a line.
csv_eol(p) ==
    CASE p.state \in {"start_field", "in_field", "quote_in_quoted"} ->
           [p EXCEPT !.state = "start_record", !.field = <<>>,
                     !.row = Append(p.row, p.field)]
      [] p.state = "eat_crnl" -> [p EXCEPT !.state = "start_record"]
      [] OTHER -> p

\* The reader after the i-th character of text: the character, then the
\* end of the line if the character ends one, which completes a row unless
\* a quoted field is still open.
csv_step(text, i, p) ==
    LET c == text[i]
        q == csv_char(p, c)
        lineEnds == \/ c = "\n"
                    \/ c = "\r" /\ (i = Len(text) \/ text[i + 1] # "\n")
        r == IF lineEnds THEN csv_eol(q) ELSE q
    IN  IF r.state = "start_record" /\ lineEnds
        THEN [state |-> "start_record", field |-> <<>>, row |-> <<>>,
              rows |-> Append(p.rows, r.row)]
        ELSE r

\* The reader after the characters lo..hi of text, started in p.
RECURSIVE csv_run(_, _, _, _)
csv_run(text, lo, hi, p) ==
    IF lo > hi THEN p
    ELSE IF lo = hi THEN csv_step(text, lo, p)
    ELSE LET mid == (lo + hi) \div 2
             left == csv_run(text, lo, mid, p)
         IN  \* no state is "": the test only has left computed first
             IF left.state = "" THEN left
             ELSE csv_run(text, mid + 1, hi, left)

\* The rows a csv.reader yields for text.
csv_read(text) ==
    LET p == csv_run(text, 1, Len(text),
                     [state |-> "start_record", field |-> <<>>, row |-> <<>>,
                      rows |-> <<>>])
    IN  IF p.state = "start_record" THEN p.rows
        ELSE Append(p.rows, Append(p.row, p.field))

PlainText(t) == \A i \in 1..Len(t) : t[i] \notin {",", "\""}

PlainCourse(c) ==
    /\ PlainText(c.title)
    /\ PlainText(c.class_code)
    /\ PlainText(c.enrolled)
    /\ PlainText(c.wait_list)

Saved == pc = "called" /\ args.csv_path = OutPath

\* The number in the "Saved N courses to path" line.
ReportedCount ==
    py_int(SubSeq(out[1], Len(SavedPrefix) + 1,
                  Len(out[1]) - Len(SavedMiddle) - Len(args.csv_path)))

\* C7: save_csv on N records writes the header row Title, Class, Enrolled,
\* Wait List and then N rows; read back, the i-th data row is the i-th
\* record's title, class code, enrolled and wait list, unchanged, when they
\* hold no comma and no quote; N = 0 gives the header alone; and the count
\* reported is N.
C7_CsvRoundTrip ==
    Saved =>
        LET rows == csv_read(file)
            n == Len(courses)
        IN  /\ Len(rows) = n + 1
            /\ rows[1] = <<TitleLabel, ClassLabel, EnrolledLabel, WaitLabel>>
            /\ \A i \in 1..n :
                 PlainCourse(courses[i]) =>
                     rows[i + 1] = <<courses[i].title, courses[i].class_code,
                                     courses[i].enrolled, courses[i].wait_list>>
            /\ Len(out) = 1
            /\ ReportedCount.ok
            /\ ReportedCount.val = n

\* Two different records without commas or quotes were written.
C7_Witness ==
    /\ Saved
    /\ Len(courses) = 2
    /\ courses[1] # courses[2]
    /\ PlainCourse(courses[1])
    /\ PlainCourse(courses[2])
    /\ file # NoText

====
